---- MODULE Spec2Model ----
(***************************************************************************)
(* MCP Gateway: the server registry (registry.py), the router (router.py)  *)
(* and the gateway API (main.py) of services/mcp-gateway.                  *)
(*                                                                         *)
(* The gateway is one asyncio process: a coroutine runs without            *)
(* interruption up to the await that really suspends (the outbound HTTP    *)
(* request), so every action below is one such uninterrupted segment.      *)
(* asyncio.gather schedules its tasks back to back, so their first         *)
(* segments run in order with nothing in between.                          *)
(*                                                                         *)
(* Provider names, registration bodies, requests and provider answers are  *)
(* drawn from small sets; error messages are represented by their kind.    *)
(***************************************************************************)
EXTENDS Integers, Sequences, FiniteSets, TLC

\* ------------------------------------------------------------------ bounds
MaxClock == 2
MaxBatch == 3
\* Frames the client of the streaming channel sends on one connection.
MaxFrames == 3

\* ------------------------------------------------------------ input domains
Names == {"a", "b"}
None == "none"

\* Registration bodies a client may POST (ServerRegistration); tools and
\* resources are lists of descriptors, represented by their names.
RegHttp1 ==
  [version |-> "1.0", description |-> "d1", endpoint |-> "e1", transport |-> "http",
   tools |-> <<"t1">>, resources |-> <<"r1">>, metadata |-> "infrastructure"]

RegHttp2 ==
  [version |-> "2.0", description |-> "d2", endpoint |-> "e2", transport |-> "http",
   tools |-> <<"t1", "t2">>, resources |-> <<>>, metadata |-> "integration"]

RegStdio ==
  [version |-> "3.0", description |-> "d3", endpoint |-> "e3", transport |-> "stdio",
   tools |-> <<"t2">>, resources |-> <<"r2">>, metadata |-> "integration"]

Registrations == {RegHttp1, RegHttp2, RegStdio}

\* Tool-call requests (MCPToolCall): server None triggers auto-discovery.
ExplicitRequests == {[server |-> "a", tool |-> "t1"], [server |-> "b", tool |-> "t1"]}

Requests == ExplicitRequests \cup {[server |-> None, tool |-> "t1"], [server |-> None, tool |-> "t2"]}

\* The requests of a batch.
BatchRequests == ExplicitRequests

\* What a provider may answer to POST {endpoint}/mcp.
Replies == {"ok", "rpc_error", "http_status", "connect_error", "timeout"}

\* What a provider may answer to GET {endpoint}/health.
HealthReplies == {"200", "non200", "connect_error", "timeout", "other_error"}

Statuses == {"available", "degraded", "unavailable"}

VARIABLES
  servers,   \* MCPRegistry.servers: insertion-ordered dict, as a sequence of records
  now,       \* the value datetime.utcnow() returns
  op,        \* the tool-call handler in progress (POST /api/mcp/call or /batch)
  hc,        \* the health handler in progress (GET .../health)
  mirror,    \* the external cache as the registry sees it, and the registry
             \* call that is awaiting it
  ws         \* the connection of the streaming channel (/ws/mcp) and its handler

vars == <<servers, now, op, hc, mirror, ws>>

\* ---------------------------------------------------------------- registry
\* Position of key n in the dict, 0 when absent.
IndexOf(reg, n) ==
  IF \E i \in 1..Len(reg) : reg[i].name = n
    THEN CHOOSE i \in 1..Len(reg) : reg[i].name = n /\ \A j \in 1..(i-1) : reg[j].name # n
    ELSE 0

Has(reg, n) == IndexOf(reg, n) # 0

Get(reg, n) == reg[IndexOf(reg, n)]

\* dict[key] = value: an existing key keeps its position, a new key goes last.
Put(reg, rec) ==
  IF Has(reg, rec.name) THEN [reg EXCEPT ![IndexOf(reg, rec.name)] = rec]
                        ELSE Append(reg, rec)

\* del dict[key]
Del(reg, n) ==
  LET i == IndexOf(reg, n)
  IN  [j \in 1..(Len(reg) - 1) |-> IF j < i THEN reg[j] ELSE reg[j + 1]]

\* MCPServerInfo.__init__
MCPServerInfo(n, r, t) ==
  [name |-> n, version |-> r.version, description |-> r.description,
   endpoint |-> r.endpoint, transport |-> r.transport,
   tools |-> r.tools, resources |-> r.resources, metadata |-> r.metadata,
   status |-> "available", last_health_check |-> t, registered_at |-> t]

\* register that extends the lists of an existing record instead of replacing it.
RegisterInMerging(reg, n, r, t) ==
  IF Has(reg, n)
    THEN Put(reg, [MCPServerInfo(n, r, t) EXCEPT !.tools = Get(reg, n).tools \o r.tools,
                                                 !.resources = Get(reg, n).resources \o r.resources])
    ELSE Put(reg, MCPServerInfo(n, r, t))

\* register that carries the health status of the record it replaces.
RegisterInKeepingStatus(reg, n, r, t) ==
  IF Has(reg, n)
    THEN Put(reg, [MCPServerInfo(n, r, t) EXCEPT !.status = Get(reg, n).status])
    ELSE Put(reg, MCPServerInfo(n, r, t))

\* MCPRegistry.register: the in-memory table after the call.
RegisterIn(reg, n, r, t) == Put(reg, MCPServerInfo(n, r, t))

\* unregister that keeps the entry and marks it unavailable.
UnregisterInSoft(reg, n) ==
  IF Has(reg, n) THEN [reg EXCEPT ![IndexOf(reg, n)].status = "unavailable"] ELSE reg

\* MCPRegistry.unregister, the table it leaves.
UnregisterIn(reg, n) == IF Has(reg, n) THEN Del(reg, n) ELSE reg

\* update_server_status that writes only when the status changes.
UpdateServerStatusOnChange(reg, n, s, t) ==
  IF Has(reg, n) /\ reg[IndexOf(reg, n)].status # s
    THEN [reg EXCEPT ![IndexOf(reg, n)].status = s,
                     ![IndexOf(reg, n)].last_health_check = t]
    ELSE reg

\* update_server_status that leaves the timestamp of the check alone.
UpdateServerStatusOnly(reg, n, s, t) ==
  IF Has(reg, n) THEN [reg EXCEPT ![IndexOf(reg, n)].status = s] ELSE reg

\* update_server_status that stores a fresh record without the declared tools.
UpdateServerStatusDroppingTools(reg, n, s, t) ==
  IF Has(reg, n)
    THEN [reg EXCEPT ![IndexOf(reg, n)].status = s,
                     ![IndexOf(reg, n)].last_health_check = t,
                     ![IndexOf(reg, n)].tools = <<>>]
    ELSE reg

\* update_server_status that creates the entry it does not find.
UpdateServerStatusUpsert(reg, n, s, t) ==
  IF Has(reg, n)
    THEN [reg EXCEPT ![IndexOf(reg, n)].status = s,
                     ![IndexOf(reg, n)].last_health_check = t]
    ELSE Append(reg, [MCPServerInfo(n, RegHttp1, t) EXCEPT !.status = s])

\* MCPRegistry.update_server_status
UpdateServerStatus(reg, n, s, t) ==
  IF Has(reg, n)
    THEN [reg EXCEPT ![IndexOf(reg, n)].status = s,
                     ![IndexOf(reg, n)].last_health_check = t]
    ELSE reg

\* What update_server_status returns: True when the name was found.
UpdateServerStatusReturns(reg, n) == Has(reg, n)

\* MCPRegistry.get_server (None when absent)
GetServer(reg, n) == IF Has(reg, n) THEN Get(reg, n) ELSE None

\* MCPRegistry.list_servers
ListServers(reg) == reg

\* MCPRegistry.list_all_tools: one entry per declared tool, in dict order,
\* tagged with the owner's name and status.
RECURSIVE ListAllToolsFrom(_, _)
ListAllToolsFrom(reg, i) ==
  IF i > Len(reg) THEN <<>>
  ELSE [k \in 1..Len(reg[i].tools) |->
          [server |-> reg[i].name, server_status |-> reg[i].status, name |-> reg[i].tools[k]]]
       \o ListAllToolsFrom(reg, i + 1)

ListAllTools(reg) == ListAllToolsFrom(reg, 1)

\* find_tool_server that keeps the last declaring server it meets.
FindToolServerLast(reg, tool) ==
  LET hits == {i \in 1..Len(reg) : \E k \in 1..Len(reg[i].tools) : reg[i].tools[k] = tool}
  IN  IF hits = {} THEN None
      ELSE reg[CHOOSE i \in hits : \A j \in hits : i >= j].name

\* MCPRegistry.find_tool_server: first server, in dict order, declaring the tool.
FindToolServer(reg, tool) ==
  LET hits == {i \in 1..Len(reg) : \E k \in 1..Len(reg[i].tools) : reg[i].tools[k] = tool}
  IN  IF hits = {} THEN None
      ELSE reg[CHOOSE i \in hits : \A j \in hits : i <= j].name

\* ------------------------------------------------------------------ router
\* call_tool whose guard rejects only the status "unavailable".
RouterCallStartUnavailableOnly(reg, n) ==
  IF ~Has(reg, n) THEN [raised |-> "server_not_found", endpoint |-> None]
  ELSE IF Get(reg, n).status = "unavailable"
    THEN [raised |-> "server_unavailable", endpoint |-> None]
  ELSE IF Get(reg, n).transport # "http"
    THEN [raised |-> "unsupported_transport", endpoint |-> None]
  ELSE [raised |-> None, endpoint |-> Get(reg, n).endpoint]

\* call_tool that posts whatever the transport.
RouterCallStartAnyTransport(reg, n) ==
  IF ~Has(reg, n) THEN [raised |-> "server_not_found", endpoint |-> None]
  ELSE IF Get(reg, n).status # "available"
    THEN [raised |-> "server_unavailable", endpoint |-> None]
  ELSE [raised |-> None, endpoint |-> Get(reg, n).endpoint]

\* MCPRouter.call_tool up to the await of client.post: the lookup, the
\* availability guard, the transport branch.  raised = None: the request is sent.
RouterCallStart(reg, n) ==
  IF ~Has(reg, n) THEN [raised |-> "server_not_found", endpoint |-> None]
  ELSE IF Get(reg, n).status # "available"
    THEN [raised |-> "server_unavailable", endpoint |-> None]
  ELSE IF Get(reg, n).transport # "http"
    THEN [raised |-> "unsupported_transport", endpoint |-> None]
  ELSE [raised |-> None, endpoint |-> Get(reg, n).endpoint]

\* call_tool that marks the provider "degraded" on every HTTP-level failure.
RouterCallFinishAlwaysDegraded(reg, n, reply, t) ==
  CASE reply = "ok"            -> [reg |-> reg, raised |-> None]
    [] reply = "rpc_error"     -> [reg |-> reg, raised |-> "remote_error"]
    [] reply = "http_status"   -> [reg |-> UpdateServerStatus(reg, n, "degraded", t),
                                   raised |-> "http_status"]
    [] reply = "connect_error" -> [reg |-> UpdateServerStatus(reg, n, "degraded", t),
                                   raised |-> "connect_error"]
    [] OTHER                   -> [reg |-> reg, raised |-> reply]

\* call_tool that treats an error field in the body as a failing provider.
RouterCallFinishRpcErrorDegrades(reg, n, reply, t) ==
  CASE reply = "ok"            -> [reg |-> reg, raised |-> None]
    [] reply = "rpc_error"     -> [reg |-> UpdateServerStatus(reg, n, "degraded", t),
                                   raised |-> "remote_error"]
    [] reply = "http_status"   -> [reg |-> UpdateServerStatus(reg, n, "degraded", t),
                                   raised |-> "http_status"]
    [] reply = "connect_error" -> [reg |-> UpdateServerStatus(reg, n, "unavailable", t),
                                   raised |-> "connect_error"]
    [] OTHER                   -> [reg |-> reg, raised |-> reply]

\* call_tool that degrades the provider when the request times out.
RouterCallFinishTimeoutDegrades(reg, n, reply, t) ==
  CASE reply = "ok"            -> [reg |-> reg, raised |-> None]
    [] reply = "rpc_error"     -> [reg |-> reg, raised |-> "remote_error"]
    [] reply = "http_status"   -> [reg |-> UpdateServerStatus(reg, n, "degraded", t),
                                   raised |-> "http_status"]
    [] reply = "connect_error" -> [reg |-> UpdateServerStatus(reg, n, "unavailable", t),
                                   raised |-> "connect_error"]
    [] reply = "timeout"       -> [reg |-> UpdateServerStatus(reg, n, "degraded", t),
                                   raised |-> "timeout"]
    [] OTHER                   -> [reg |-> reg, raised |-> reply]

\* call_tool that leaves the table alone whatever the failure.
RouterCallFinishNoMark(reg, n, reply, t) ==
  CASE reply = "ok"        -> [reg |-> reg, raised |-> None]
    [] reply = "rpc_error" -> [reg |-> reg, raised |-> "remote_error"]
    [] OTHER               -> [reg |-> reg, raised |-> reply]

\* call_tool that marks the provider available again when it answers.
RouterCallFinishOkRestores(reg, n, reply, t) ==
  CASE reply = "ok"            -> [reg |-> UpdateServerStatus(reg, n, "available", t),
                                   raised |-> None]
    [] reply = "rpc_error"     -> [reg |-> reg, raised |-> "remote_error"]
    [] reply = "http_status"   -> [reg |-> UpdateServerStatus(reg, n, "degraded", t),
                                   raised |-> "http_status"]
    [] reply = "connect_error" -> [reg |-> UpdateServerStatus(reg, n, "unavailable", t),
                                   raised |-> "connect_error"]
    [] OTHER                   -> [reg |-> reg, raised |-> reply]

\* MCPRouter.call_tool from the provider's answer on: raise_for_status, the
\* error field of the body, the except clauses.  t is utcnow().
RouterCallFinish(reg, n, reply, t) ==
  CASE reply = "ok"            -> [reg |-> reg, raised |-> None]
    [] reply = "rpc_error"     -> [reg |-> reg, raised |-> "remote_error"]
    [] reply = "http_status"   -> [reg |-> UpdateServerStatus(reg, n, "degraded", t),
                                   raised |-> "http_status"]
    [] reply = "connect_error" -> [reg |-> UpdateServerStatus(reg, n, "unavailable", t),
                                   raised |-> "connect_error"]
    [] OTHER                   -> [reg |-> reg, raised |-> reply]

\* read_resource with call_tool's availability guard.
RouterReadStartGuarded(reg, n) ==
  IF ~Has(reg, n) THEN [raised |-> "server_not_found", endpoint |-> None]
  ELSE IF Get(reg, n).status # "available"
    THEN [raised |-> "server_unavailable", endpoint |-> None]
  ELSE IF Get(reg, n).transport # "http"
    THEN [raised |-> "unsupported_transport", endpoint |-> None]
  ELSE [raised |-> None, endpoint |-> Get(reg, n).endpoint]

\* MCPRouter.read_resource up to the await of client.post: the lookup and the
\* transport branch; the status is not consulted.
RouterReadStart(reg, n) ==
  IF ~Has(reg, n) THEN [raised |-> "server_not_found", endpoint |-> None]
  ELSE IF Get(reg, n).transport # "http"
    THEN [raised |-> "unsupported_transport", endpoint |-> None]
  ELSE [raised |-> None, endpoint |-> Get(reg, n).endpoint]

\* MCPRouter.read_resource from the provider's answer on: one except clause
\* that logs and re-raises, whatever the error.
RouterReadFinish(reg, n, reply, t) ==
  CASE reply = "ok"        -> [reg |-> reg, raised |-> None]
    [] reply = "rpc_error" -> [reg |-> reg, raised |-> "remote_error"]
    [] OTHER               -> [reg |-> reg, raised |-> reply]

\* MCPRouter.check_server_health up to the await of client.get.
HealthStart(reg, n) ==
  IF ~Has(reg, n)
    THEN [name |-> n, st |-> "done", sent |-> 0,
          result |-> [kind |-> "dict", status |-> "not_found", error |-> None]]
  ELSE IF Get(reg, n).transport # "http"
    THEN [name |-> n, st |-> "done", sent |-> 0,
          result |-> [kind |-> "dict", status |-> "unknown", error |-> None]]
  ELSE [name |-> n, st |-> "inflight", sent |-> 1, result |-> [kind |-> "none"]]

\* check_server_health that treats a timeout like a refused connection.
HealthStatusTimeoutUnavailable(reply) ==
  CASE reply = "200"           -> "available"
    [] reply = "non200"        -> "degraded"
    [] OTHER                   -> "unavailable"

\* check_server_health that stores "unknown" after an unexpected exception.
HealthStatusUnknown(reply) ==
  CASE reply = "200"           -> "available"
    [] reply = "non200"        -> "degraded"
    [] reply = "connect_error" -> "unavailable"
    [] reply = "timeout"       -> "degraded"
    [] OTHER                   -> "unknown"

\* The status check_server_health derives from the answer to GET /health.
HealthStatus(reply) ==
  CASE reply = "200"           -> "available"
    [] reply = "non200"        -> "degraded"
    [] reply = "connect_error" -> "unavailable"
    [] reply = "timeout"       -> "degraded"
    [] OTHER                   -> "unavailable"

\* The error text check_server_health reports.
HealthError(reply) ==
  CASE reply = "connect_error" -> "Connection refused"
    [] reply = "timeout"       -> "Timeout"
    [] reply = "other_error"   -> "exception"
    [] OTHER                   -> None

\* MCPRouter.check_server_health from the answer on: the registry update and
\* the returned dict.
HealthFinish(reg, n, reply, t) ==
  [reg    |-> UpdateServerStatus(reg, n, HealthStatus(reply), t),
   result |-> [kind |-> "dict", status |-> HealthStatus(reply), error |-> HealthError(reply)]]

\* check_all_health's conversion of gather's results.
InlineResult(r) ==
  IF r.kind = "dict" THEN r ELSE [kind |-> "dict", status |-> None, error |-> "exception"]

\* ----------------------------------------------------------------- gateway
NoResp == [kind |-> "none"]

\* One invocation of main.call_tool: st is its position (pending: not started,
\* inflight: awaiting the provider, done: returned), server the resolved name,
\* endpoint the URL the request went to, sent the number of outbound requests,
\* reply the provider's answer and resp what call_tool returned.
PendingItem ==
  [st |-> "pending", server |-> None, endpoint |-> None, sent |-> 0, reply |-> None,
   resp |-> NoResp]

\* call_tool whose except clause catches ValueError only: the httpx errors escape.
GatewayResponseValueErrorOnly(id, n, raised) ==
  IF raised = None
    THEN [kind |-> "response", id |-> id, success |-> TRUE, result |-> "content",
          error |-> None, server |-> n]
  ELSE IF raised \in {"http_status", "connect_error", "timeout"}
    THEN [kind |-> "exception", id |-> None, success |-> FALSE, result |-> None,
          error |-> raised, server |-> None]
    ELSE [kind |-> "response", id |-> id, success |-> FALSE, result |-> None,
          error |-> raised, server |-> None]

\* The MCPResponse main.call_tool builds: the success envelope after the
\* router returned, the failure envelope of the except clause otherwise.
GatewayResponse(id, n, raised) ==
  IF raised = None
    THEN [kind |-> "response", id |-> id, success |-> TRUE, result |-> "content",
          error |-> None, server |-> n]
    ELSE [kind |-> "response", id |-> id, success |-> FALSE, result |-> None,
          error |-> raised, server |-> None]

\* call_tool whose discovery takes the first registered server, whatever it
\* declares.
StartItemFirstServer(reg, req, id) ==
  LET n == IF req.server # None THEN req.server
           ELSE IF Len(reg) > 0 THEN reg[1].name ELSE None
  IN  IF n = None
        THEN [st |-> "done", server |-> None, endpoint |-> None, sent |-> 0, reply |-> None,
              resp |-> GatewayResponse(id, None, "tool_not_found")]
      ELSE LET r == RouterCallStart(reg, n)
           IN  IF r.raised # None
                 THEN [st |-> "done", server |-> n, endpoint |-> None, sent |-> 0,
                       reply |-> None, resp |-> GatewayResponse(id, n, r.raised)]
                 ELSE [st |-> "inflight", server |-> n, endpoint |-> r.endpoint,
                       sent |-> 1, reply |-> None, resp |-> NoResp]

\* main.call_tool up to the await of the outbound request: auto-discovery,
\* then the router's first segment.
StartItem(reg, req, id) ==
  LET n == IF req.server # None THEN req.server ELSE FindToolServer(reg, req.tool)
  IN  IF n = None
        THEN [st |-> "done", server |-> None, endpoint |-> None, sent |-> 0, reply |-> None,
              resp |-> GatewayResponse(id, None, "tool_not_found")]
      ELSE LET r == RouterCallStart(reg, n)
           IN  IF r.raised # None
                 THEN [st |-> "done", server |-> n, endpoint |-> None, sent |-> 0,
                       reply |-> None, resp |-> GatewayResponse(id, n, r.raised)]
                 ELSE [st |-> "inflight", server |-> n, endpoint |-> r.endpoint,
                       sent |-> 1, reply |-> None, resp |-> NoResp]

\* The MCPResponse main.read_resource builds.
ResourceResponse(id, n, raised) ==
  IF raised = None
    THEN [kind |-> "response", id |-> id, success |-> TRUE, result |-> "contents",
          error |-> None, server |-> n]
    ELSE [kind |-> "response", id |-> id, success |-> FALSE, result |-> None,
          error |-> raised, server |-> None]

\* main.read_resource up to the await of the outbound request.
StartRead(reg, req, id) ==
  LET r == RouterReadStart(reg, req.server)
  IN  IF r.raised # None
        THEN [st |-> "done", server |-> req.server, endpoint |-> None, sent |-> 0,
              reply |-> None, resp |-> ResourceResponse(id, req.server, r.raised)]
        ELSE [st |-> "inflight", server |-> req.server, endpoint |-> r.endpoint,
              sent |-> 1, reply |-> None, resp |-> NoResp]

\* A call_tool that sends the request once more after a failure.
FinishItemRetrying(it, id, raised, reply) ==
  IF raised # None /\ it.sent < 2
    THEN [it EXCEPT !.sent = it.sent + 1]
    ELSE [it EXCEPT !.st = "done", !.reply = reply,
                    !.resp = GatewayResponse(id, it.server, raised)]

\* main.call_tool after the router returned or raised: the call is over and
\* its envelope built.
FinishItem(it, id, raised, reply) ==
  [it EXCEPT !.st = "done", !.reply = reply, !.resp = GatewayResponse(id, it.server, raised)]

\* A sequential branch that starts every remaining request at once.
RunSequentialEager(reg, reqs, items, i) ==
  [k \in 1..Len(reqs) |->
     IF k >= i /\ items[k].st = "pending" THEN StartItem(reg, reqs[k], k) ELSE items[k]]

\* batch_call, parallel = false: the for loop from request i on, up to the
\* next await that suspends (or to the end of the list).
RECURSIVE RunSequential(_, _, _, _)
RunSequential(reg, reqs, items, i) ==
  IF i > Len(reqs) THEN items
  ELSE LET it == StartItem(reg, reqs[i], i)
       IN  IF it.st = "done"
             THEN RunSequential(reg, reqs, [items EXCEPT ![i] = it], i + 1)
             ELSE [items EXCEPT ![i] = it]

\* A parallel branch that awaits each call before starting the next.
RunParallelOneAtATime(reg, reqs) ==
  RunSequential(reg, reqs, [i \in 1..Len(reqs) |-> PendingItem], 1)

\* batch_call, parallel = true: gather starts every task, in request order.
RunParallel(reg, reqs) == [i \in 1..Len(reqs) |-> StartItem(reg, reqs[i], i)]

\* batch_call's conversion of gather's results.
BatchResult(r) ==
  IF r.kind = "response" THEN r
  ELSE [kind |-> "response", id |-> None, success |-> FALSE, result |-> None,
        error |-> "exception", server |-> None]

AllDone(items) == \A i \in 1..Len(items) : items[i].st = "done"

\* A batch that returns the successful responses only.
BatchResultsDroppingErrors(o) ==
  SelectSeq([i \in 1..Len(o.items) |-> o.items[i].resp], LAMBDA r : r.kind = "response" /\ r.success)

\* The list batch_call returns: gather's converted results when parallel,
\* the appended responses otherwise.
BatchResults(o) ==
  [i \in 1..Len(o.items) |->
     IF o.kind = "par" THEN BatchResult(o.items[i].resp) ELSE o.items[i].resp]

\* ----------------------------------------------------------------- actions
Idle == [kind |-> "idle", reqs |-> <<>>, items |-> <<>>]
HcIdle == [kind |-> "idle", tasks |-> <<>>]

\* No registry call is awaiting the cache.
NoCall == [kind |-> "none"]

\* url: REDIS_URL is set; client: MCPRegistry._redis holds a connection;
\* call: the register or unregister that is awaiting the cache; ret: how the
\* last such call ended.
NoMirror == [url |-> FALSE, client |-> FALSE, call |-> NoCall, ret |-> [kind |-> "none"]]

\* The streaming channel before a client connects.  st: none (no connection
\* yet), open (the handler awaits receive_json), awaiting (the handler awaits
\* call_tool), closed; peer: the client is still connected; read: the frames
\* receive_json returned; out: the frames send_json delivered; item: the
\* call_tool in progress.
NoSocket == [st |-> "none", peer |-> FALSE, read |-> <<>>, out |-> <<>>, item |-> PendingItem]

Init ==
  /\ servers = <<>>
  /\ now = 0
  /\ op = Idle
  /\ hc = HcIdle
  /\ mirror = NoMirror
  /\ ws = NoSocket

\* The gateway started with REDIS_URL set.
InitRedis ==
  /\ servers = <<>>
  /\ now = 0
  /\ op = Idle
  /\ hc = HcIdle
  /\ mirror = [NoMirror EXCEPT !.url = TRUE]
  /\ ws = NoSocket

\* Time passes.
Tick ==
  /\ now < MaxClock
  /\ now' = now + 1
  /\ UNCHANGED <<servers, op, hc, mirror, ws>>

\* POST /api/mcp/servers/register without REDIS_URL: _get_redis returns None
\* at once and the handler runs in one piece.
Register(n, r) ==
  /\ ~mirror.url
  /\ servers' = RegisterIn(servers, n, r, now)
  /\ UNCHANGED <<now, op, hc, mirror, ws>>

\* DELETE /api/mcp/servers/{name} without REDIS_URL (404 and no change when
\* the name is unknown)
Unregister(n) ==
  /\ ~mirror.url
  /\ servers' = UnregisterIn(servers, n)
  /\ UNCHANGED <<now, op, hc, mirror, ws>>

\* What the registry call that leaves the cache returns: register the record
\* it built, unregister True.
Returned(call) ==
  [kind |-> "returned", call |-> call.kind, name |-> call.name,
   value |-> IF call.kind = "register" THEN call.server ELSE TRUE]

\* The first await of a call that has the cache to reach: the connection when
\* none is held, the write otherwise.
MirrorStage(m) == IF m.client THEN "write" ELSE "connect"

\* MCPRegistry.register with REDIS_URL set, up to its first await: the table
\* is written, then the cache is asked for.
RegisterMirrored(n, r) ==
  /\ mirror.url
  /\ mirror.call = NoCall
  /\ servers' = RegisterIn(servers, n, r, now)
  /\ mirror' = [mirror EXCEPT !.call = [kind |-> "register", name |-> n,
                                         server |-> MCPServerInfo(n, r, now),
                                         stage |-> MirrorStage(mirror)]]
  /\ UNCHANGED <<now, op, hc, ws>>

\* MCPRegistry.unregister with REDIS_URL set, up to its first await; an
\* unknown name returns False at once.
UnregisterMirrored(n) ==
  /\ mirror.url
  /\ mirror.call = NoCall
  /\ servers' = UnregisterIn(servers, n)
  /\ mirror' = IF Has(servers, n)
                 THEN [mirror EXCEPT !.call = [kind |-> "unregister", name |-> n,
                                               server |-> None,
                                               stage |-> MirrorStage(mirror)]]
                 ELSE [mirror EXCEPT !.ret = [kind |-> "returned", call |-> "unregister",
                                              name |-> n, value |-> FALSE]]
  /\ UNCHANGED <<now, op, hc, ws>>

\* MCPRegistry._get_redis: from_url and ping.  A failure is logged, _redis is
\* reset and the caller goes on without the cache.
GetRedis(ok) ==
  /\ mirror.call # NoCall
  /\ mirror.call.stage = "connect"
  /\ mirror' = IF ok
                 THEN [mirror EXCEPT !.client = TRUE, !.call.stage = "write"]
                 ELSE [mirror EXCEPT !.client = FALSE, !.call = NoCall,
                                     !.ret = Returned(mirror.call)]
  /\ UNCHANGED <<servers, now, op, hc, ws>>

\* The await of hset in register, of hdel in unregister: neither is inside a
\* try, so what the cache raises leaves the call.
MirrorWrite(ok) ==
  /\ mirror.call # NoCall
  /\ mirror.call.stage = "write"
  /\ mirror' = [mirror EXCEPT !.call = NoCall,
                              !.ret = IF ok THEN Returned(mirror.call)
                                      ELSE [kind |-> "raised", call |-> mirror.call.kind,
                                            name |-> mirror.call.name,
                                            value |-> "RedisError"]]
  /\ UNCHANGED <<servers, now, op, hc, ws>>

\* Frames a client may send on /ws/mcp: a tool call, a tool call whose
\* payload lacks the tool, a subscription, a ping, a frame of another type.
Frames ==
  {[type |-> "tool_call", payload |-> [server |-> "a", tool |-> "t1"], server |-> None],
   [type |-> "tool_call", payload |-> [server |-> None, tool |-> None], server |-> None],
   [type |-> "subscribe", payload |-> None, server |-> "a"],
   [type |-> "ping", payload |-> None, server |-> None],
   [type |-> "other", payload |-> None, server |-> None]}

\* A mcp_websocket that acknowledges no subscription.
WsHandleSilentSubscribe(reg, f, id) ==
  IF f.type = "tool_call"
    THEN IF f.payload.tool = None
           THEN [st |-> "closed", sent |-> <<>>, item |-> PendingItem]
           ELSE LET it == StartItem(reg, f.payload, id)
                IN  IF it.st = "done"
                      THEN [st |-> "open", item |-> PendingItem,
                            sent |-> <<[type |-> "tool_result", payload |-> it.resp,
                                        server |-> None]>>]
                      ELSE [st |-> "awaiting", sent |-> <<>>, item |-> it]
  ELSE IF f.type = "ping"
    THEN [st |-> "open", item |-> PendingItem,
          sent |-> <<[type |-> "pong", payload |-> None, server |-> None]>>]
  ELSE [st |-> "open", sent |-> <<>>, item |-> PendingItem]

\* mcp_websocket: one turn of the loop from the frame receive_json returned
\* up to the next await that suspends.  MCPToolCall(**payload) raises on a
\* payload without tool and the except clause closes the connection; a frame
\* of another type falls through the if chain.
WsHandle(reg, f, id) ==
  IF f.type = "tool_call"
    THEN IF f.payload.tool = None
           THEN [st |-> "closed", sent |-> <<>>, item |-> PendingItem]
           ELSE LET it == StartItem(reg, f.payload, id)
                IN  IF it.st = "done"
                      THEN [st |-> "open", item |-> PendingItem,
                            sent |-> <<[type |-> "tool_result", payload |-> it.resp,
                                        server |-> None]>>]
                      ELSE [st |-> "awaiting", sent |-> <<>>, item |-> it]
  ELSE IF f.type = "subscribe"
    THEN [st |-> "open", item |-> PendingItem,
          sent |-> <<[type |-> "subscribed", payload |-> None, server |-> f.server]>>]
  ELSE IF f.type = "ping"
    THEN [st |-> "open", item |-> PendingItem,
          sent |-> <<[type |-> "pong", payload |-> None, server |-> None]>>]
  ELSE [st |-> "open", sent |-> <<>>, item |-> PendingItem]

\* websocket.accept
WsConnect ==
  /\ ws.st = "none"
  /\ ws' = [ws EXCEPT !.st = "open", !.peer = TRUE]
  /\ UNCHANGED <<servers, now, op, hc, mirror>>

\* receive_json returns frame f and the handler runs up to its next await.
WsReceive(f) ==
  /\ ws.st = "open" /\ ws.peer
  /\ Len(ws.read) < MaxFrames
  /\ LET h == WsHandle(servers, f, Len(ws.read) + 1)
     IN  ws' = [ws EXCEPT !.st = h.st, !.read = Append(ws.read, f),
                          !.out = ws.out \o h.sent, !.item = h.item]
  /\ UNCHANGED <<servers, now, op, hc, mirror>>

\* The provider answers the call of a tool_call frame: call_tool returns its
\* envelope and send_json delivers the tool_result, unless the client has
\* left, in which case send_json raises and the handler ends.
WsReply(reply) ==
  /\ ws.st = "awaiting"
  /\ LET fin  == RouterCallFinish(servers, ws.item.server, reply, now)
         done == FinishItem(ws.item, Len(ws.read), fin.raised, reply)
     IN  /\ servers' = fin.reg
         /\ ws' = IF ws.peer
                    THEN [ws EXCEPT !.st = "open", !.item = PendingItem,
                                    !.out = Append(ws.out, [type |-> "tool_result",
                                                            payload |-> done.resp,
                                                            server |-> None])]
                    ELSE [ws EXCEPT !.st = "closed", !.item = PendingItem]
  /\ UNCHANGED <<now, op, hc, mirror>>

\* The client goes away: receive_json raises WebSocketDisconnect at once; a
\* handler that awaits call_tool learns of it when it sends.
WsDisconnect ==
  /\ ws.peer
  /\ ws' = [ws EXCEPT !.peer = FALSE, !.st = IF ws.st = "open" THEN "closed" ELSE ws.st]
  /\ UNCHANGED <<servers, now, op, hc, mirror>>

\* POST /api/mcp/call
CallTool(req) ==
  /\ op.kind = "idle"
  /\ op' = [kind |-> "call", reqs |-> <<req>>, items |-> <<StartItem(servers, req, 1)>>]
  /\ UNCHANGED <<servers, now, hc, mirror, ws>>

\* Resource reads (MCPResourceRead): the server is mandatory.
ResourceRequests == {[server |-> n, uri |-> "r1"] : n \in Names}

\* POST /api/mcp/resource
ReadResource(req) ==
  /\ op.kind = "idle"
  /\ op' = [kind |-> "resource", reqs |-> <<req>>, items |-> <<StartRead(servers, req, 1)>>]
  /\ UNCHANGED <<servers, now, hc, mirror, ws>>

BatchInputs == UNION {[1..k -> BatchRequests] : k \in 1..MaxBatch}

\* POST /api/mcp/batch
BatchCall(reqs, parallel) ==
  /\ op.kind = "idle"
  /\ op' = IF parallel
             THEN [kind |-> "par", reqs |-> reqs, items |-> RunParallel(servers, reqs)]
             ELSE [kind |-> "seq", reqs |-> reqs,
                   items |-> RunSequential(servers, reqs, [i \in 1..Len(reqs) |-> PendingItem], 1)]
  /\ UNCHANGED <<servers, now, hc, mirror, ws>>

\* An answer that marks the provider only while the record the request went
\* to is still the one registered.
ReplyKeyedByRecord(i, reply) ==
  /\ i \in 1..Len(op.items)
  /\ op.items[i].st = "inflight"
  /\ LET it    == op.items[i]
         same  == Has(servers, it.server) /\ Get(servers, it.server).endpoint = it.endpoint
         fin   == IF op.kind = "resource"
                    THEN RouterReadFinish(servers, it.server, reply, now)
                    ELSE IF same THEN RouterCallFinish(servers, it.server, reply, now)
                    ELSE [RouterCallFinish(servers, it.server, reply, now)
                            EXCEPT !.reg = servers]
         done  == IF op.kind = "resource"
                    THEN [it EXCEPT !.st = "done", !.reply = reply,
                                    !.resp = ResourceResponse(i, it.server, fin.raised)]
                    ELSE FinishItem(it, i, fin.raised, reply)
         items == [op.items EXCEPT ![i] = done]
     IN  /\ servers' = fin.reg
         /\ op' = [op EXCEPT !.items = IF op.kind = "seq"
                                         THEN RunSequential(fin.reg, op.reqs, items, i + 1)
                                         ELSE items]
  /\ UNCHANGED <<now, hc, mirror, ws>>

\* The provider's answer to the outbound request of call i arrives.
Reply(i, reply) ==
  /\ i \in 1..Len(op.items)
  /\ op.items[i].st = "inflight"
  /\ LET it    == op.items[i]
         fin   == IF op.kind = "resource"
                    THEN RouterReadFinish(servers, it.server, reply, now)
                    ELSE RouterCallFinish(servers, it.server, reply, now)
         done  == IF op.kind = "resource"
                    THEN [it EXCEPT !.st = "done", !.reply = reply,
                                    !.resp = ResourceResponse(i, it.server, fin.raised)]
                    ELSE FinishItem(it, i, fin.raised, reply)
         items == [op.items EXCEPT ![i] = done]
     IN  /\ servers' = fin.reg
         /\ op' = [op EXCEPT !.items = IF op.kind = "seq"
                                         THEN RunSequential(fin.reg, op.reqs, items, i + 1)
                                         ELSE items]
  /\ UNCHANGED <<now, hc, mirror, ws>>

\* The handler returns its response to the client.
Return ==
  /\ op.kind # "idle"
  /\ AllDone(op.items)
  /\ op' = Idle
  /\ UNCHANGED <<servers, now, hc, mirror, ws>>

\* GET /api/mcp/servers/{name}/health
CheckServerHealth(n) ==
  /\ hc.kind = "idle"
  /\ hc' = [kind |-> "one", tasks |-> <<HealthStart(servers, n)>>]
  /\ UNCHANGED <<servers, now, op, mirror, ws>>

\* check_all_health that skips the providers already marked unavailable.
HealthTasksSkippingUnavailable(reg) ==
  LET live == SelectSeq(reg, LAMBDA e : e.status # "unavailable")
  IN  [i \in 1..Len(live) |->
         [name |-> live[i].name, st |-> "pending", sent |-> 0, result |-> [kind |-> "none"]]]

\* check_all_health: one task per key of the table, in dict order.
HealthTasks(reg) ==
  [i \in 1..Len(reg) |->
     [name |-> reg[i].name, st |-> "pending", sent |-> 0, result |-> [kind |-> "none"]]]

\* GET /api/mcp/health: the tasks are created over the keys of the table ...
CheckAllHealth ==
  /\ hc.kind = "idle"
  /\ hc' = [kind |-> "all", tasks |-> HealthTasks(servers)]
  /\ UNCHANGED <<servers, now, op, mirror, ws>>

\* ... and gather runs the first segment of each, in order.
HealthDispatch ==
  /\ hc.kind = "all"
  /\ Len(hc.tasks) > 0
  /\ \A i \in 1..Len(hc.tasks) : hc.tasks[i].st = "pending"
  /\ hc' = [hc EXCEPT !.tasks = [i \in 1..Len(hc.tasks) |-> HealthStart(servers, hc.tasks[i].name)]]
  /\ UNCHANGED <<servers, now, op, mirror, ws>>

\* The provider's answer to GET /health of task i arrives.
HealthReply(i, reply) ==
  /\ i \in 1..Len(hc.tasks)
  /\ hc.tasks[i].st = "inflight"
  /\ LET fin == HealthFinish(servers, hc.tasks[i].name, reply, now)
     IN  /\ servers' = fin.reg
         /\ hc' = [hc EXCEPT !.tasks[i].st = "done", !.tasks[i].result = fin.result]
  /\ UNCHANGED <<now, op, mirror, ws>>

\* The list check_all_health returns.
HealthResults(h) == [i \in 1..Len(h.tasks) |-> InlineResult(h.tasks[i].result)]

HealthReturn ==
  /\ hc.kind # "idle"
  /\ \A i \in 1..Len(hc.tasks) : hc.tasks[i].st = "done"
  /\ hc' = HcIdle
  /\ UNCHANGED <<servers, now, op, mirror, ws>>

Next ==
  \/ Tick
  \/ \E n \in Names, r \in Registrations : Register(n, r)
  \/ \E n \in Names : Unregister(n)
  \/ \E n \in Names, r \in Registrations : RegisterMirrored(n, r)
  \/ \E n \in Names : UnregisterMirrored(n)
  \/ \E ok \in BOOLEAN : GetRedis(ok)
  \/ \E ok \in BOOLEAN : MirrorWrite(ok)
  \/ \E req \in Requests : CallTool(req)
  \/ \E req \in ResourceRequests : ReadResource(req)
  \/ \E reqs \in BatchInputs, parallel \in BOOLEAN : BatchCall(reqs, parallel)
  \/ \E i \in 1..MaxBatch, reply \in Replies : Reply(i, reply)
  \/ Return
  \/ \E n \in Names : CheckServerHealth(n)
  \/ CheckAllHealth
  \/ HealthDispatch
  \/ \E i \in 1..Cardinality(Names), reply \in HealthReplies : HealthReply(i, reply)
  \/ HealthReturn
  \/ WsConnect
  \/ \E f \in Frames : WsReceive(f)
  \/ \E reply \in Replies : WsReply(reply)
  \/ WsDisconnect

Spec == Init /\ [][Next]_vars

\* ------------------------------------------------------------- workloads
\* The gateway serving single calls while providers come and go.
NextCall ==
  \/ Tick
  \/ \E n \in Names, r \in Registrations : Register(n, r)
  \/ \E n \in Names : Unregister(n)
  \/ \E req \in Requests : CallTool(req)
  \/ \E reply \in Replies : Reply(1, reply)
  \/ Return

SpecCall == Init /\ [][NextCall]_vars

\* The gateway serving single calls and resource reads.
NextResource ==
  \/ Tick
  \/ \E n \in Names, r \in Registrations : Register(n, r)
  \/ \E n \in Names : Unregister(n)
  \/ \E req \in ExplicitRequests : CallTool(req)
  \/ \E req \in ResourceRequests : ReadResource(req)
  \/ \E reply \in Replies : Reply(1, reply)
  \/ Return

SpecResource == Init /\ [][NextResource]_vars

\* The registry with REDIS_URL set: registrations and removals that await
\* the cache, one at a time.
NextRegistry ==
  \/ Tick
  \/ \E n \in Names, r \in Registrations : RegisterMirrored(n, r)
  \/ \E n \in Names : UnregisterMirrored(n)
  \/ \E ok \in BOOLEAN : GetRedis(ok)
  \/ \E ok \in BOOLEAN : MirrorWrite(ok)

SpecRegistry == InitRedis /\ [][NextRegistry]_vars

\* The gateway serving batches; providers register with one body.
NextBatch ==
  \/ \E n \in Names : Register(n, RegHttp1)
  \/ \E n \in Names : Unregister(n)
  \/ \E reqs \in BatchInputs, parallel \in BOOLEAN : BatchCall(reqs, parallel)
  \/ \E i \in 1..MaxBatch, reply \in Replies : Reply(i, reply)
  \/ Return

SpecBatch == Init /\ [][NextBatch]_vars

\* The gateway serving health checks while providers come and go.
NextHealth ==
  \/ Tick
  \/ \E n \in Names, r \in Registrations : Register(n, r)
  \/ \E n \in Names : Unregister(n)
  \/ \E n \in Names : CheckServerHealth(n)
  \/ CheckAllHealth
  \/ HealthDispatch
  \/ \E i \in 1..Cardinality(Names), reply \in HealthReplies : HealthReply(i, reply)
  \/ HealthReturn

SpecHealth == Init /\ [][NextHealth]_vars

\* One client on the streaming channel while providers come and go.  Every
\* outbound request ends: the provider answers or the client's timeout fires.
NextStream ==
  \/ \E n \in Names, r \in {RegHttp1, RegStdio} : Register(n, r)
  \/ \E n \in Names : Unregister(n)
  \/ WsConnect
  \/ \E f \in Frames : WsReceive(f)
  \/ \E reply \in Replies : WsReply(reply)
  \/ WsDisconnect

SpecStream ==
  Init /\ [][NextStream]_vars /\ WF_vars(\E reply \in Replies : WsReply(reply))

\* Every kind of route at one instant of the clock: calls, batches of two
\* calls, resource reads and single health checks interleave while providers
\* come and go.
GatewayBatches == {<<r1, r2>> : r1 \in BatchRequests, r2 \in BatchRequests}

NextGateway ==
  \/ \E n \in Names, r \in {RegHttp1, RegStdio} : Register(n, r)
  \/ \E n \in Names : Unregister(n)
  \/ \E req \in ExplicitRequests : CallTool(req)
  \/ \E req \in ResourceRequests : ReadResource(req)
  \/ \E reqs \in GatewayBatches, parallel \in BOOLEAN : BatchCall(reqs, parallel)
  \/ \E i \in 1..MaxBatch, reply \in Replies : Reply(i, reply)
  \/ Return
  \/ \E n \in Names : CheckServerHealth(n)
  \/ \E reply \in HealthReplies : HealthReply(1, reply)
  \/ HealthReturn

SpecGateway == Init /\ [][NextGateway]_vars

\* ------------------------------------------------------------------ claims
\* C1: the registry holds at most one record per name; register on a name
\* already present replaces the whole record (tools and resources replaced,
\* not merged), and list_servers then shows exactly one entry for the name,
\* carrying the new fields.
C1_RegisterReplaces ==
  [][ LET ls == ListServers(servers')
      IN  /\ \A i, j \in 1..Len(ls) : ls[i].name = ls[j].name => i = j
          /\ \A n \in Names, r \in Registrations :
               Register(n, r) =>
                 \E i \in 1..Len(ls) :
                   /\ ls[i].name = n
                   /\ ls[i].version = r.version
                   /\ ls[i].description = r.description
                   /\ ls[i].endpoint = r.endpoint
                   /\ ls[i].transport = r.transport
                   /\ ls[i].tools = r.tools
                   /\ ls[i].resources = r.resources
                   /\ ls[i].metadata = r.metadata
                   /\ ls[i].registered_at = now
    ]_vars

\* A record that was overwritten in place: the key is older in the dict than
\* its neighbour, the record is newer and carries other tools.
C1_Witness ==
  /\ Len(servers) = 2
  /\ servers[1].registered_at > servers[2].registered_at
  /\ servers[1].tools = <<"t1", "t2">>
  /\ servers[1].name # servers[2].name

\* C2: call_tool fails with server-not-found when the name is not in the
\* registry and with server-unavailable when the provider's status is not
\* "available"; in both cases nothing is sent.
C2_CallToolGuards ==
  [][ \A req \in Requests :
        (CallTool(req) /\ op'.items[1].server # None) =>
          LET it == op'.items[1]
              n  == it.server
          IN  /\ ~Has(servers, n) =>
                   /\ it.st = "done" /\ it.sent = 0
                   /\ ~it.resp.success /\ it.resp.error = "server_not_found"
              /\ (Has(servers, n) /\ Get(servers, n).status # "available") =>
                   /\ it.st = "done" /\ it.sent = 0
                   /\ ~it.resp.success /\ it.resp.error = "server_unavailable"
    ]_vars

\* A call refused because the provider is degraded.
C2_Witness ==
  /\ op.kind = "call"
  /\ op.items[1].st = "done"
  /\ op.items[1].sent = 0
  /\ op.items[1].resp.error = "server_unavailable"
  /\ Has(servers, op.items[1].server)
  /\ Get(servers, op.items[1].server).status = "degraded"

\* C3: when a dispatched call fails at the HTTP level, the status of the
\* provider registered under that name is changed in the step that raises the
\* error: non-2xx gives "degraded", a connection failure "unavailable", and
\* the caller gets the original error.
C3_FailureMarksProvider ==
  [][ \A i \in 1..Len(op.items) :
        (op.items[i].st = "inflight" /\ i <= Len(op'.items) /\ op'.items[i].st = "done") =>
          LET it == op'.items[i]
              n  == it.server
          IN  /\ it.reply = "http_status" =>
                   /\ ~it.resp.success /\ it.resp.error = "http_status"
                   /\ Has(servers, n) => /\ Get(servers', n).status = "degraded"
                                         /\ Get(servers', n).last_health_check = now
              /\ it.reply = "connect_error" =>
                   /\ ~it.resp.success /\ it.resp.error = "connect_error"
                   /\ Has(servers, n) => /\ Get(servers', n).status = "unavailable"
                                         /\ Get(servers', n).last_health_check = now
    ]_vars

\* A call that met a refused connection, its provider now unavailable.
C3_Witness ==
  /\ op.kind = "call"
  /\ op.items[1].st = "done"
  /\ op.items[1].reply = "connect_error"
  /\ op.items[1].resp.error = "connect_error"
  /\ Has(servers, op.items[1].server)
  /\ Get(servers, op.items[1].server).status = "unavailable"

\* C4: POST /api/mcp/call always returns an MCPResponse: success = false with
\* an error in every failure case, success = true only when the router
\* returned the provider's result.
C4_AlwaysEnvelope ==
  op.kind = "call" =>
    \A i \in 1..Len(op.items) :
      op.items[i].st = "done" =>
        LET it == op.items[i]
            r  == it.resp
        IN  /\ r.kind = "response"
            /\ r.success = (it.reply = "ok")
            /\ r.success => (r.result # None /\ r.error = None /\ it.sent = 1)
            /\ ~r.success => (r.error # None /\ r.result = None)

\* A call that timed out, answered with a failure envelope.
C4_Witness ==
  /\ op.kind = "call"
  /\ op.items[1].st = "done"
  /\ op.items[1].reply = "timeout"
  /\ op.items[1].resp.kind = "response"
  /\ ~op.items[1].resp.success
  /\ op.items[1].resp.error = "timeout"

\* Call i of the handler runs its first segment in this step.
StartedNow(i) ==
  /\ op'.kind # "idle"
  /\ i <= Len(op'.items)
  /\ op'.items[i].st # "pending"
  /\ op.kind = "idle" \/ op.items[i].st = "pending"

\* C5: batch_call returns exactly one result per request, in request order,
\* in both modes; a request whose server is not registered when it is looked
\* up gets success = false with server-not-found at its own position, a
\* request on a registered, available provider is dispatched and gets
\* success = true when the provider answers.
C5_BatchOneResultPerRequest ==
  [][ /\ op'.kind \in {"seq", "par"} =>
           /\ Len(BatchResults(op')) = Len(op'.reqs)
           /\ \A i \in 1..Len(op'.reqs) :
                op'.items[i].st = "done" =>
                  LET r == BatchResults(op')[i]
                  IN  /\ r.kind = "response"
                      /\ r.id = i
                      /\ r.success = (op'.items[i].reply = "ok")
                      /\ r.success => r.server = op'.reqs[i].server
      /\ \A i \in 1..MaxBatch :
           (StartedNow(i) /\ op'.kind \in {"seq", "par"}) =>
             LET n  == op'.reqs[i].server
                 it == op'.items[i]
             IN  /\ ~Has(servers', n) =>
                      /\ it.st = "done" /\ it.sent = 0
                      /\ ~it.resp.success /\ it.resp.error = "server_not_found"
                      /\ it.resp.id = i
                 /\ (Has(servers', n) /\ Get(servers', n).status = "available"
                       /\ Get(servers', n).transport = "http") =>
                      (it.st = "inflight" /\ it.sent = 1)
    ]_vars

\* Three requests, the second on a server that is not registered: true, false, true.
C5_Witness ==
  /\ op.kind \in {"seq", "par"}
  /\ Len(op.reqs) = 3
  /\ AllDone(op.items)
  /\ BatchResults(op)[1].success
  /\ ~BatchResults(op)[2].success /\ BatchResults(op)[2].error = "server_not_found"
  /\ BatchResults(op)[3].success

\* C6: in a sequential batch call N+1 is not started before call N has
\* completed, and the results stand in request order.
C6_SequentialOrder ==
  op.kind = "seq" =>
    /\ \A i, j \in 1..Len(op.items) :
         (i < j /\ op.items[j].st # "pending") => op.items[i].st = "done"
    /\ \A i \in 1..Len(op.items) :
         op.items[i].st = "done" =>
           (BatchResults(op)[i].id = i /\ op.items[i].server = op.reqs[i].server)

\* The first call is done, the second awaits its provider, the third has not started.
C6_Witness ==
  /\ op.kind = "seq"
  /\ Len(op.items) = 3
  /\ op.items[1].st = "done"
  /\ op.items[2].st = "inflight"
  /\ op.items[3].st = "pending"

\* C7: a parallel batch issues all its calls at once and returns only after
\* every one has completed; a call that is slow or fails neither keeps a
\* sibling from being dispatched nor aborts it, and every entry of the returned
\* list is a response (success = false with an error for a failed call).
C7_ParallelJoin ==
  [][ /\ op'.kind = "par" => \A i \in 1..Len(op'.items) : op'.items[i].st # "pending"
      /\ (op.kind = "par" /\ op'.kind = "par") =>
           /\ Len(op'.items) = Len(op.items)
           /\ \A j \in 1..Len(op.items) :
                \/ op'.items[j] = op.items[j]
                \/ op.items[j].st = "inflight" /\ op'.items[j].st = "done"
           /\ Cardinality({j \in 1..Len(op.items) : op'.items[j] # op.items[j]}) <= 1
      /\ (op.kind = "par" /\ op'.kind = "idle") =>
           /\ AllDone(op.items)
           /\ \A i \in 1..Len(op.items) :
                LET r == BatchResults(op)[i]
                IN  /\ r.kind = "response"
                    /\ r.success = (op.items[i].reply = "ok")
                    /\ ~r.success => r.error # None
    ]_vars

\* The second call has failed while the first still awaits its provider.
C7_Witness ==
  /\ op.kind = "par"
  /\ Len(op.items) >= 2
  /\ op.items[1].st = "inflight"
  /\ op.items[2].st = "done"
  /\ op.items[2].reply = "connect_error"
  /\ ~op.items[2].resp.success

\* C8: check_server_health on a registered provider maps the answer to GET
\* /health to a status it both returns and stores: 200 available, another
\* status degraded, connection failure unavailable, timeout degraded.
C8_HealthStatusMapping ==
  [][ \A i \in 1..Len(hc.tasks), reply \in HealthReplies :
        HealthReply(i, reply) =>
          LET n   == hc.tasks[i].name
              res == hc'.tasks[i].result
          IN  /\ reply = "200" => res.status = "available"
              /\ reply = "non200" => res.status = "degraded"
              /\ reply = "connect_error" => res.status = "unavailable"
              /\ reply = "timeout" => res.status = "degraded"
              /\ Has(servers, n) =>
                   /\ Has(servers', n)
                   /\ GetServer(servers', n).status = res.status
    ]_vars

\* A check that met a refused connection; get_server shows unavailable.
C8_Witness ==
  /\ hc.kind = "one"
  /\ hc.tasks[1].st = "done"
  /\ hc.tasks[1].result.status = "unavailable"
  /\ hc.tasks[1].result.error = "Connection refused"
  /\ Has(servers, hc.tasks[1].name)
  /\ GetServer(servers, hc.tasks[1].name).status = "unavailable"

\* Health task i returns in this step.
TaskCompletes(i) ==
  /\ hc'.kind # "idle"
  /\ i <= Len(hc'.tasks)
  /\ hc'.tasks[i].st = "done"
  /\ hc.kind = "idle" \/ hc.tasks[i].st # "done"

\* C9, as claimed: every check_server_health on a registered provider updates
\* the provider's status and last_health_check.
C9_EveryCheckUpdates ==
  [][ \A i \in 1..Cardinality(Names) :
        (TaskCompletes(i) /\ Has(servers', hc'.tasks[i].name)) =>
          /\ Get(servers', hc'.tasks[i].name).status = hc'.tasks[i].result.status
          /\ Get(servers', hc'.tasks[i].name).last_health_check = now
    ]_vars

\* C9, amended: a check that was sent to the provider (transport http) updates
\* status and last_health_check of the entry under that name when the answer
\* arrives, whatever the previous status; a check on a registered provider of
\* another transport returns "unknown" and leaves the table as it was.
C9_SentCheckUpdates ==
  [][ \A i \in 1..Cardinality(Names) :
        (TaskCompletes(i) /\ Has(servers', hc'.tasks[i].name)) =>
          LET n == hc'.tasks[i].name
          IN  IF hc.kind # "idle" /\ hc.tasks[i].st = "inflight"
                THEN /\ Get(servers', n).status = hc'.tasks[i].result.status
                     /\ Get(servers', n).last_health_check = now
                ELSE /\ Get(servers, n).transport # "http"
                     /\ hc'.tasks[i].result.status = "unknown"
                     /\ servers' = servers
    ]_vars

\* A check answered 200 on a provider that was already available: the
\* timestamp is refreshed all the same.
C9_Witness ==
  /\ hc.kind = "one"
  /\ hc.tasks[1].st = "done"
  /\ hc.tasks[1].result.status = "available"
  /\ Has(servers, hc.tasks[1].name)
  /\ Get(servers, hc.tasks[1].name).status = "available"
  /\ Get(servers, hc.tasks[1].name).last_health_check = now
  /\ Get(servers, hc.tasks[1].name).registered_at < now

\* C10: check_all_health checks every provider registered when it is called,
\* all at once, and returns one result dict per such provider; the outcome of
\* one check leaves the results of the others alone.
C10_CheckAllHealth ==
  [][ /\ (hc.kind = "idle" /\ hc'.kind = "all") =>
           /\ Len(hc'.tasks) = Len(ListServers(servers))
           /\ \A i \in 1..Len(hc'.tasks) : hc'.tasks[i].name = ListServers(servers)[i].name
      /\ hc'.kind = "all" =>
           \/ \A i \in 1..Len(hc'.tasks) : hc'.tasks[i].st = "pending"
           \/ \A i \in 1..Len(hc'.tasks) : hc'.tasks[i].st # "pending"
      /\ (hc.kind = "all" /\ hc'.kind = "all") =>
           /\ Len(hc'.tasks) = Len(hc.tasks)
           /\ \A i \in 1..Len(hc.tasks) :
                /\ hc'.tasks[i].name = hc.tasks[i].name
                /\ hc.tasks[i].st = "done" => hc'.tasks[i] = hc.tasks[i]
      /\ (hc.kind = "all" /\ hc'.kind = "idle") =>
           /\ Len(HealthResults(hc)) = Len(hc.tasks)
           /\ \A i \in 1..Len(hc.tasks) :
                /\ hc.tasks[i].st = "done"
                /\ HealthResults(hc)[i].kind = "dict"
                /\ HealthResults(hc)[i].status = hc.tasks[i].result.status
    ]_vars

\* Two providers checked, the first unreachable, the second healthy.
C10_Witness ==
  /\ hc.kind = "all"
  /\ Len(hc.tasks) = 2
  /\ hc.tasks[1].st = "done" /\ hc.tasks[1].result.status = "unavailable"
  /\ hc.tasks[2].st = "done" /\ hc.tasks[2].result.status = "available"

\* C11: read_resource follows call_tool's failure rules: when a dispatched read
\* fails with a non-2xx answer the provider registered under that name becomes
\* "degraded", with a connection failure "unavailable", and the caller gets
\* the error.
C11_ReadFailureMarksProvider ==
  [][ (/\ op.kind = "resource" /\ op.items[1].st = "inflight"
       /\ op'.kind = "resource" /\ op'.items[1].st = "done"
       /\ Has(servers, op.items[1].server)) =>
        LET it == op'.items[1]
            n  == it.server
        IN  /\ it.reply = "http_status" =>
                 /\ ~it.resp.success /\ it.resp.error = "http_status"
                 /\ Get(servers', n).status = "degraded"
            /\ it.reply = "connect_error" =>
                 /\ ~it.resp.success /\ it.resp.error = "connect_error"
                 /\ Get(servers', n).status = "unavailable"
    ]_vars

\* A provider declares a tool when the name is in its tools list.
Declares(rec, tool) == \E k \in 1..Len(rec.tools) : rec.tools[k] = tool

\* C12: find_tool_server returns none when no registered provider declares
\* the tool, and otherwise the name of the first provider, in the registry's
\* iteration order, that declares it (the only one when there is one); a step
\* that is neither a register nor an unregister leaves its answer as it was.
C12_FindToolServer ==
  [][ /\ \A tool \in {"t1", "t2", "t3"} :
           LET found == FindToolServer(servers', tool)
           IN  /\ found = None <=> \A i \in 1..Len(servers') : ~Declares(servers'[i], tool)
               /\ found # None =>
                    \E i \in 1..Len(servers') :
                      /\ servers'[i].name = found
                      /\ Declares(servers'[i], tool)
                      /\ \A j \in 1..(i - 1) : ~Declares(servers'[j], tool)
      /\ (/\ ~ \E n \in Names, r \in Registrations : Register(n, r)
          /\ ~ \E n \in Names : Unregister(n)) =>
           \A tool \in {"t1", "t2", "t3"} :
             FindToolServer(servers', tool) = FindToolServer(servers, tool)
    ]_vars

\* Two providers declare t1; the one whose key is older in the table is found
\* although its record is the newer one and it is no longer available.
C12_Witness ==
  /\ Len(servers) = 2
  /\ Declares(servers[1], "t1") /\ Declares(servers[2], "t1")
  /\ servers[1].registered_at > servers[2].registered_at
  /\ servers[1].status = "unavailable"
  /\ FindToolServer(servers, "t1") = servers[1].name
  /\ FindToolServer(servers, "t3") = None

\* C13: once a registered provider is unregistered, list_all_tools has no
\* entry owned by it and find_tool_server resolves none of its tools to it:
\* to none when no other provider declares the tool.
C13_UnregisterForgetsTools ==
  [][ \A n \in Names :
        (Unregister(n) /\ Has(servers, n)) =>
          LET old == Get(servers, n)
              all == ListAllTools(servers')
          IN  /\ \A k \in 1..Len(all) : all[k].server # n
              /\ \A k \in 1..Len(old.tools) :
                   /\ FindToolServer(servers', old.tools[k]) # n
                   /\ (\A i \in 1..Len(servers) :
                         servers[i].name # n => ~Declares(servers[i], old.tools[k]))
                      => FindToolServer(servers', old.tools[k]) = None
    ]_vars

\* A call was discovered for t1 and served by "a"; "a" is gone, "b" is left
\* and declares t2 only: t1 resolves to nobody and the listing shows b's tool.
C13_Witness ==
  /\ op.kind = "call" /\ op.reqs[1].server = None /\ op.reqs[1].tool = "t1"
  /\ op.items[1].st = "done" /\ op.items[1].server = "a" /\ op.items[1].resp.success
  /\ ~Has(servers, "a") /\ Has(servers, "b")
  /\ FindToolServer(servers, "t1") = None
  /\ Len(ListAllTools(servers)) = 1
  /\ ListAllTools(servers)[1].server = "b"

\* C14: a step never leaves a half-written record in the table: each record is
\* the one of the state before, or a whole record built by one register, or
\* the record before with status and last_health_check written together.
C14_NoPartialRecord ==
  [][ \A n \in Names :
        Has(servers', n) =>
          LET new == Get(servers', n)
          IN  \/ Has(servers, n) /\ new = Get(servers, n)
              \/ \E r \in Registrations : new = MCPServerInfo(n, r, now)
              \/ /\ Has(servers, n)
                 /\ new.status \in Statuses
                 /\ new.last_health_check = now
                 /\ new = [Get(servers, n) EXCEPT !.status = new.status,
                                                  !.last_health_check = now]
    ]_vars

\* A health check sent to an http provider was answered after the name had
\* been registered again with another transport: the new record carries the
\* check's status and timestamp, every other field is the registration's.
C14_Witness ==
  /\ Has(servers, "a")
  /\ Get(servers, "a").transport = "stdio"
  /\ Get(servers, "a").status = "degraded"
  /\ Get(servers, "a").last_health_check > Get(servers, "a").registered_at
  /\ Get(servers, "a").tools = RegStdio.tools

\* C17: a call that names no server is resolved with find_tool_server and
\* handed to the router for that provider; when no registered provider
\* declares the tool the answer is success = false with a tool-not-found
\* error, nothing is sent and no status changes.
C17_AutoDiscovery ==
  [][ \A req \in Requests :
        (CallTool(req) /\ req.server = None) =>
          LET it    == op'.items[1]
              nobody == \A i \in 1..Len(servers) : ~Declares(servers[i], req.tool)
          IN  /\ servers' = servers
              /\ nobody =>
                   /\ it.st = "done" /\ it.sent = 0
                   /\ ~it.resp.success /\ it.resp.error = "tool_not_found"
              /\ ~nobody =>
                   /\ it.server = FindToolServer(servers, req.tool)
                   /\ Has(servers, it.server)
                   /\ Declares(Get(servers, it.server), req.tool)
                   /\ it.st = "inflight" =>
                        /\ it.endpoint = Get(servers, it.server).endpoint
                        /\ it.sent = 1
                   /\ it.st = "done" =>
                        /\ it.sent = 0
                        /\ it.resp.error \in {"server_unavailable", "unsupported_transport"}
                        /\ it.resp.error = RouterCallStart(servers, it.server).raised
    ]_vars

\* A provider is registered, but not for t2: the call for t2 that names no
\* server was answered tool-not-found and nothing was sent.
C17_Witness ==
  /\ op.kind = "call" /\ op.reqs[1].server = None /\ op.reqs[1].tool = "t2"
  /\ op.items[1].st = "done" /\ op.items[1].sent = 0
  /\ op.items[1].resp.error = "tool_not_found"
  /\ Len(servers) = 1 /\ servers[1].status = "available"

\* C18: a 2xx answer whose body carries an error field makes call_tool fail
\* with the remote message; the request was sent once and the provider's
\* record is left as it was.
C18_RemoteErrorKeepsStatus ==
  [][ \A i \in 1..Len(op.items) :
        (/\ op.kind # "resource" /\ op.items[i].st = "inflight"
         /\ i <= Len(op'.items) /\ op'.items[i].st = "done"
         /\ op'.items[i].reply = "rpc_error") =>
          /\ ~op'.items[i].resp.success
          /\ op'.items[i].resp.error = "remote_error"
          /\ op'.items[i].sent = 1
          /\ servers' = servers
    ]_vars

\* The provider answered 200 with an error body and is still available.
C18_Witness ==
  /\ op.kind = "call"
  /\ op.items[1].st = "done" /\ op.items[1].reply = "rpc_error"
  /\ op.items[1].resp.error = "remote_error"
  /\ Has(servers, op.items[1].server)
  /\ Get(servers, op.items[1].server).status = "available"

\* C19: one call_tool sends at most one outbound request: a call in flight
\* has sent one, a call that got an answer has sent that one only, a call
\* that failed before dispatch has sent none.
C19_NoRetry ==
  \A i \in 1..Len(op.items) :
    LET it == op.items[i]
    IN  /\ it.sent <= 1
        /\ it.st = "inflight" => it.sent = 1
        /\ (it.st = "done" /\ it.reply # None) => it.sent = 1
        /\ (it.st = "done" /\ it.reply = None) => it.sent = 0

\* A batch in which one call failed on the connection and one timed out:
\* each was sent once.
C19_Witness ==
  /\ op.kind = "par" /\ Len(op.items) = 2
  /\ op.items[1].st = "done" /\ op.items[1].reply = "connect_error" /\ op.items[1].sent = 1
  /\ op.items[2].st = "done" /\ op.items[2].reply = "timeout" /\ op.items[2].sent = 1

\* C20: a call to a registered, available provider whose transport is not
\* http fails with unsupported-transport and nothing is sent.
C20_UnsupportedTransport ==
  [][ \A req \in Requests :
        (/\ CallTool(req)
         /\ op'.items[1].server # None
         /\ Has(servers, op'.items[1].server)
         /\ Get(servers, op'.items[1].server).status = "available"
         /\ Get(servers, op'.items[1].server).transport # "http") =>
          /\ op'.items[1].st = "done" /\ op'.items[1].sent = 0
          /\ ~op'.items[1].resp.success
          /\ op'.items[1].resp.error = "unsupported_transport"
          /\ servers' = servers
    ]_vars

\* A stdio provider, available, refused a call.
C20_Witness ==
  /\ op.kind = "call"
  /\ op.items[1].st = "done" /\ op.items[1].sent = 0
  /\ op.items[1].resp.error = "unsupported_transport"
  /\ Has(servers, op.items[1].server)
  /\ Get(servers, op.items[1].server).transport = "stdio"
  /\ Get(servers, op.items[1].server).status = "available"

\* C15: register always succeeds and returns the record it stored; a failure
\* to reach the cache or to write to it does not change that.
C15_RegisterAlwaysReturns ==
  [][ (mirror.call.kind = "register" /\ mirror'.call = NoCall) =>
        /\ mirror'.ret.kind = "returned"
        /\ mirror'.ret.value = mirror.call.server
    ]_vars

\* C16: unregister returns true exactly when the entry existed, and then that
\* entry alone is removed; on an unknown name it returns false without
\* raising and leaves the table as it was; get_server on a name that is not
\* registered returns none.
C16_UnregisterReturns ==
  [][ /\ \A n \in Names :
           UnregisterMirrored(n) =>
             IF Has(servers, n)
               THEN /\ ~Has(servers', n)
                    /\ Len(servers') = Len(servers) - 1
                    /\ \A m \in Names \ {n} :
                         /\ Has(servers', m) <=> Has(servers, m)
                         /\ Has(servers, m) => Get(servers', m) = Get(servers, m)
               ELSE /\ servers' = servers
                    /\ mirror'.ret.kind = "returned"
                    /\ mirror'.ret.value = FALSE
      /\ (mirror.call.kind = "unregister" /\ mirror'.call = NoCall) =>
           /\ mirror'.ret.kind = "returned"
           /\ mirror'.ret.value = TRUE
      /\ \A n \in Names : ~Has(servers', n) => GetServer(servers', n) = None
    ]_vars

\* The fields register sets and nothing else may touch.
Config(rec) ==
  [name |-> rec.name, version |-> rec.version, description |-> rec.description,
   endpoint |-> rec.endpoint, transport |-> rec.transport, tools |-> rec.tools,
   resources |-> rec.resources, metadata |-> rec.metadata,
   registered_at |-> rec.registered_at]

\* C22: a step that is neither a register nor an unregister keeps the names
\* in the table, their order, and every field of every record except status
\* and last_health_check; when it changes those, it is one status update on
\* one name, made by a call or a health check that got its answer.
C22_OnlyStatusChanges ==
  [][ (/\ ~ \E n \in Names, r \in Registrations : Register(n, r)
       /\ ~ \E n \in Names : Unregister(n)) =>
        /\ Len(servers') = Len(servers)
        /\ \A k \in 1..Len(servers) : Config(servers'[k]) = Config(servers[k])
        /\ servers' # servers =>
             /\ \E k \in 1..Len(servers) :
                  \A j \in 1..Len(servers) : j # k => servers'[j] = servers[j]
             /\ \/ \E i \in 1..Len(op.items) :
                     /\ op.kind \in {"call", "seq", "par"}
                     /\ op.items[i].st = "inflight" /\ op'.items[i].st = "done"
                     /\ op'.items[i].reply \in {"http_status", "connect_error"}
                \/ TaskCompletes(1) /\ hc.kind # "idle" /\ hc.tasks[1].st = "inflight"
    ]_vars

\* A stdio record carries a status written by a health check that had been
\* sent to the http record it replaced, while a resource read on the other
\* provider has failed: tools and endpoint are the registration's.
C22_Witness ==
  /\ Has(servers, "a") /\ Has(servers, "b")
  /\ Get(servers, "a").transport = "stdio" /\ Get(servers, "a").status = "unavailable"
  /\ Get(servers, "a").tools = RegStdio.tools /\ Get(servers, "a").endpoint = RegStdio.endpoint
  /\ Get(servers, "b").status = "available"
  /\ op.kind = "resource" /\ op.items[1].server = "b" /\ op.items[1].reply = "connect_error"

\* C25: the status of every registered provider is available, degraded or
\* unavailable.
C25_StatusEnum ==
  \A k \in 1..Len(servers) : servers[k].status \in {"available", "degraded", "unavailable"}

\* One provider degraded, the other unavailable after a health check that
\* raised an unexpected exception, while a batch is in flight.
C25_Witness ==
  /\ Len(servers) = 2
  /\ servers[1].status = "degraded" /\ servers[2].status = "unavailable"
  /\ hc.kind = "one" /\ hc.tasks[1].st = "done" /\ hc.tasks[1].result.error = "exception"
  /\ hc.tasks[1].name = servers[2].name
  /\ op.kind = "par" /\ op.items[1].st = "inflight"

\* C26: a provider that is not available becomes available again only by a
\* register of its name or by a health check on it that got HTTP 200, never
\* by call_tool; and a call_tool that starts while the provider is not
\* available is refused with server-unavailable and sends nothing.
C26_NoDispatchUntilRestored ==
  [][ /\ \A n \in Names :
           (/\ Has(servers, n) /\ Get(servers, n).status # "available"
            /\ Has(servers', n) /\ Get(servers', n).status = "available") =>
             \/ \E r \in Registrations : Register(n, r)
             \/ /\ TaskCompletes(1) /\ hc.kind # "idle" /\ hc.tasks[1].st = "inflight"
                /\ hc.tasks[1].name = n
                /\ hc'.tasks[1].result.status = "available"
                /\ op' = op
      /\ \A i \in 1..MaxBatch :
           (/\ StartedNow(i) /\ op'.kind # "resource"
            /\ Has(servers', op'.items[i].server)
            /\ Get(servers', op'.items[i].server).status # "available") =>
             /\ op'.items[i].st = "done" /\ op'.items[i].sent = 0
             /\ ~op'.items[i].resp.success
             /\ op'.items[i].resp.error = "server_unavailable"
    ]_vars

\* A call failed on the connection and marked "a"; the next call, of a
\* sequential batch, was refused; "a" is still unavailable although a health
\* check on "b" got 200 meanwhile.
C26_Witness ==
  /\ op.kind = "seq"
  /\ op.items[1].st = "done" /\ op.items[1].server = "a" /\ op.items[1].reply = "connect_error"
  /\ op.items[2].st = "done" /\ op.items[2].server = "a" /\ op.items[2].sent = 0
  /\ op.items[2].resp.error = "server_unavailable"
  /\ Has(servers, "a") /\ Get(servers, "a").status = "unavailable"
  /\ hc.kind = "one" /\ hc.tasks[1].name = "b" /\ hc.tasks[1].st = "done"
  /\ hc.tasks[1].result.status = "available"

\* Call i, sent earlier, gets its answer in this step.
Answered(i) ==
  /\ op.kind \in {"call", "seq", "par"}
  /\ i <= Len(op.items)
  /\ op.items[i].st = "inflight"
  /\ op'.items[i].st = "done"

C24_ReadDispatchesToRegistered ==
  [][ \A req \in ResourceRequests :
        ReadResource(req) =>
          IF Has(servers, req.server)
            THEN op'.items[1].st = "inflight" /\ op'.items[1].sent = 1
            ELSE /\ op'.items[1].st = "done" /\ op'.items[1].sent = 0
                 /\ op'.items[1].resp.error = "server_not_found"
    ]_vars

\* C24, amended: read_resource has no availability guard: it dispatches to a
\* registered provider of transport http whatever its status; before
\* dispatch it fails on an unknown name (server-not-found) and on a
\* registered provider of another transport (unsupported-transport).
C24_ReadDispatchesToHttp ==
  [][ \A req \in ResourceRequests :
        ReadResource(req) =>
          LET it == op'.items[1]
          IN  /\ servers' = servers
              /\ IF ~Has(servers, req.server)
                   THEN /\ it.st = "done" /\ it.sent = 0
                        /\ ~it.resp.success /\ it.resp.error = "server_not_found"
                   ELSE IF Get(servers, req.server).transport = "http"
                     THEN /\ it.st = "inflight" /\ it.sent = 1
                          /\ it.endpoint = Get(servers, req.server).endpoint
                     ELSE /\ it.st = "done" /\ it.sent = 0
                          /\ ~it.resp.success /\ it.resp.error = "unsupported_transport"
    ]_vars

\* A read in flight to a provider that a failed call had left unavailable.
C24_Witness ==
  /\ op.kind = "resource"
  /\ op.items[1].st = "inflight" /\ op.items[1].sent = 1
  /\ Has(servers, op.items[1].server)
  /\ Get(servers, op.items[1].server).status = "unavailable"
  /\ Get(servers, op.items[1].server).endpoint = op.items[1].endpoint

\* C27: the record register stores has status available, whatever the status
\* of the record it replaces, and call_tool on it passes the lookup and the
\* availability guard.
C27_RegisterResetsStatus ==
  [][ \A n \in Names, r \in Registrations :
        Register(n, r) =>
          /\ Get(servers', n).status = "available"
          /\ Get(servers', n).last_health_check = now
          /\ RouterCallStart(servers', n).raised \notin {"server_not_found", "server_unavailable"}
          /\ r.transport = "http" => RouterCallStart(servers', n).raised = None
    ]_vars

\* A call to "a" got a non-2xx answer, and "a", registered again since, is
\* available.
C27_Witness ==
  /\ op.kind = "call"
  /\ op.items[1].st = "done" /\ op.items[1].server = "a"
  /\ op.items[1].reply = "http_status"
  /\ Has(servers, "a") /\ Get(servers, "a").status = "available"
  /\ Get(servers, "a").registered_at = now /\ now > 0
  /\ Len(servers) = 1

\* C28: a single call_tool that fails otherwise than by a non-2xx answer or a
\* connection failure (unknown server, unavailable server, unsupported
\* transport, error in a 2xx body, timeout) leaves the table as it was.
C28_OtherFailuresLeaveTable ==
  [][ (/\ op'.kind = "call" /\ op'.items[1].st = "done"
       /\ op.kind = "idle" \/ op.items[1].st = "inflight"
       /\ ~op'.items[1].resp.success
       /\ op'.items[1].resp.error \notin {"http_status", "connect_error"}) =>
        /\ servers' = servers
        /\ op'.items[1].resp.error \in {"server_not_found", "server_unavailable",
                                         "unsupported_transport", "remote_error", "timeout"}
    ]_vars

\* The call timed out; the provider is available and its last_health_check
\* is the time of its registration.
C28_Witness ==
  /\ op.kind = "call"
  /\ op.items[1].st = "done" /\ op.items[1].reply = "timeout"
  /\ op.items[1].resp.error = "timeout"
  /\ Has(servers, op.items[1].server)
  /\ Get(servers, op.items[1].server).status = "available"
  /\ Get(servers, op.items[1].server).last_health_check < now

\* C29: in a sequential batch, when call i fails with a non-2xx answer or a
\* connection failure its provider is marked in that step, and a later call
\* of the batch that resolves to this provider starts while the mark is on
\* the record is refused with server-unavailable and sends nothing.
C29_SequentialCarryOver ==
  [][ \A i \in 1..MaxBatch :
        /\ (/\ op.kind = "seq" /\ Answered(i)
            /\ op'.items[i].reply \in {"http_status", "connect_error"}
            /\ Has(servers, op.items[i].server)) =>
             /\ Get(servers', op.items[i].server).status =
                  (IF op'.items[i].reply = "http_status" THEN "degraded" ELSE "unavailable")
             /\ \A j \in (i + 1)..Len(op'.items) :
                  (op'.items[j].st # "pending" /\ op.reqs[j].server = op.items[i].server) =>
                    /\ op'.items[j].st = "done" /\ op'.items[j].sent = 0
                    /\ ~op'.items[j].resp.success
                    /\ op'.items[j].resp.error = "server_unavailable"
        /\ (/\ op'.kind = "seq" /\ StartedNow(i)
            /\ \E k \in 1..(i - 1) :
                 /\ op'.items[k].reply \in {"http_status", "connect_error"}
                 /\ op'.items[k].server = op'.items[i].server
            /\ Has(servers', op'.items[i].server)
            /\ Get(servers', op'.items[i].server).status # "available") =>
             /\ op'.items[i].st = "done" /\ op'.items[i].sent = 0
             /\ op'.items[i].resp.error = "server_unavailable"
    ]_vars

\* Call 1 to "a" got a non-2xx answer, call 2 went to "b" and was answered,
\* call 3 to "a" was refused without a request.
C29_Witness ==
  /\ op.kind = "seq" /\ Len(op.items) = 3
  /\ op.items[1].server = "a" /\ op.items[1].reply = "http_status"
  /\ op.items[2].server = "b" /\ op.items[2].reply = "ok"
  /\ op.items[3].server = "a" /\ op.items[3].st = "done" /\ op.items[3].sent = 0
  /\ op.items[3].resp.error = "server_unavailable"
  /\ Get(servers, "a").status = "degraded"

\* C30: the status update of a failed call goes to the record registered
\* under the name when the answer arrives: when the name was registered again
\* with another endpoint while the call was in flight, the new record is
\* marked degraded or unavailable and keeps its own fields.
C30_MarkKeyedByName ==
  [][ \A i \in 1..MaxBatch :
        (/\ Answered(i)
         /\ op'.items[i].reply \in {"http_status", "connect_error"}
         /\ Has(servers, op.items[i].server)
         /\ Get(servers, op.items[i].server).endpoint # op.items[i].endpoint) =>
          LET n == op.items[i].server
          IN  /\ Get(servers', n).status =
                   (IF op'.items[i].reply = "http_status" THEN "degraded" ELSE "unavailable")
              /\ Get(servers', n).last_health_check = now
              /\ Config(Get(servers', n)) = Config(Get(servers, n))
    ]_vars

\* The request went to e1; the record now under the name has endpoint e2, was
\* registered after the request left, and is degraded.
C30_Witness ==
  /\ op.kind = "call"
  /\ op.items[1].st = "done" /\ op.items[1].reply = "http_status"
  /\ op.items[1].endpoint = "e1"
  /\ Has(servers, op.items[1].server)
  /\ Get(servers, op.items[1].server).endpoint = "e2"
  /\ Get(servers, op.items[1].server).status = "degraded"
  /\ Get(servers, op.items[1].server).tools = RegHttp2.tools

\* A frame the channel accepts: one of the three types, a tool call with a
\* payload that names its tool.
Accepted(f) ==
  \/ f.type \in {"subscribe", "ping"}
  \/ f.type = "tool_call" /\ f.payload.tool # None

\* The type of the reply each accepted frame calls for.
ReplyType(f) ==
  CASE f.type = "tool_call" -> "tool_result"
    [] f.type = "subscribe" -> "subscribed"
    [] f.type = "ping"      -> "pong"

\* C21: on the streaming channel the replies sent are, in order, the replies
\* to the accepted frames read so far: a tool_result for a tool_call, a
\* subscribed for a subscribe, a pong for a ping, one each and nothing else;
\* a frame is read only when every accepted frame before it has its reply;
\* and while the client stays, the call of a tool_call frame ends with its
\* tool_result.
C21_FramesAnswered ==
  /\ [](LET acc == SelectSeq(ws.read, Accepted)
        IN  /\ Len(ws.out) <= Len(acc)
            /\ \A k \in 1..Len(ws.out) :
                 /\ ws.out[k].type = ReplyType(acc[k])
                 /\ acc[k].type = "subscribe" => ws.out[k].server = acc[k].server
                 /\ acc[k].type = "tool_call" => ws.out[k].payload.kind = "response"
            /\ ws.st = "open" => Len(ws.out) = Len(acc)
            /\ ws.st = "awaiting" =>
                 /\ Len(ws.out) = Len(acc) - 1
                 /\ ws.read[Len(ws.read)].type = "tool_call")
  /\ [][ /\ Len(ws'.read) > Len(ws.read) =>
               /\ Len(ws.out) = Len(SelectSeq(ws.read, Accepted))
               /\ Len(ws'.read) = Len(ws.read) + 1
          /\ Len(ws'.out) \in {Len(ws.out), Len(ws.out) + 1}
          /\ \A k \in 1..Len(ws.out) : ws'.out[k] = ws.out[k]
        ]_vars
  /\ ((ws.st = "awaiting" /\ ws.peer) ~> (ws.st = "open" \/ ~ws.peer))

\* Three frames read and answered on an open connection: a tool call that the
\* provider served, a subscription, a ping.
C21_Witness ==
  /\ ws.st = "open" /\ ws.peer
  /\ Len(ws.read) = 3 /\ Len(ws.out) = 3
  /\ ws.read[1].type = "tool_call" /\ ws.out[1].type = "tool_result"
  /\ ws.out[1].payload.success
  /\ ws.read[2].type = "subscribe" /\ ws.out[2].type = "subscribed"
  /\ ws.read[3].type = "ping" /\ ws.out[3].type = "pong"

====
